---- MODULE Spec2Model ----
(***************************************************************************)
(* Real-time facial emotion analysis of the therapy-session backend:       *)
(*   services/emotion_detection.py  (micro-signals, fusion, pipeline)      *)
(*   routes/emotion_routes.py       (session registry and its endpoints)   *)
(*                                                                         *)
(* Numbers.  Python floats are modelled by exact rationals [n, d] in       *)
(* lowest terms with d > 0.  Landmark points are integer pixel pairs; the  *)
(* input sets below only hold axis-aligned geometry, so every Euclidean    *)
(* norm the code takes is an integer and Norm is exact on them.            *)
(* A rational differs from the double the code computes by the rounding of *)
(* the double (about 1e-16), which shows only where a sum of products is   *)
(* compared with a threshold it equals exactly: the frames every           *)
(* specification feeds to the fusion keep the stress, anxiety and          *)
(* engagement scores off 0.3, 0.7 and 0.8.                                 *)
(***************************************************************************)
EXTENDS Integers, Sequences, FiniteSets, TLC

(***************************************************************************)
(* Rational arithmetic                                                     *)
(***************************************************************************)
Abs(x) == IF x < 0 THEN -x ELSE x

RECURSIVE Gcd(_, _)
Gcd(a, b) == IF b = 0 THEN a ELSE Gcd(b, a % b)

Rat(n, d) ==
    LET g == Gcd(Abs(n), Abs(d))
        s == IF d < 0 THEN -1 ELSE 1
    IN  [n |-> (s * n) \div g, d |-> (s * d) \div g]

RInt(k) == [n |-> k, d |-> 1]
RAdd(a, b) == Rat(a.n * b.d + b.n * a.d, a.d * b.d)
RSub(a, b) == Rat(a.n * b.d - b.n * a.d, a.d * b.d)
RMul(a, b) == Rat(a.n * b.n, a.d * b.d)
RDiv(a, b) == Rat(a.n * b.d, a.d * b.n)
RLt(a, b) == a.n * b.d < b.n * a.d
RLe(a, b) == a.n * b.d <= b.n * a.d
RMin(a, b) == IF RLt(b, a) THEN b ELSE a
RMax(a, b) == IF RLt(a, b) THEN b ELSE a
RZero == RInt(0)
ROne == RInt(1)
InUnit(a) == RLe(RZero, a) /\ RLe(a, ROne)

RECURSIVE RSum(_)
RSum(s) == IF s = <<>> THEN RZero ELSE RAdd(Head(s), RSum(Tail(s)))

(* dict.get(key, default) *)
Get(rec, key, default) == IF key \in DOMAIN rec THEN rec[key] ELSE default

(* floor of the square root; exact on the perfect squares the inputs give *)
ISqrt(n) == CHOOSE r \in 0..n : r * r <= n /\ (r + 1) * (r + 1) > n

(* np.linalg.norm(p[:2] - q[:2]) *)
Norm(p, q) ==
    ISqrt((p[1] - q[1]) * (p[1] - q[1]) + (p[2] - q[2]) * (p[2] - q[2]))

(* Python's None, and a value that may be None: <<>> or <<v>> *)
None == <<>>
Some(v) == <<v>>

(***************************************************************************)
(* MicroExpressionDetector: the geometric calculations.                    *)
(* `landmarks` is a function from landmark index to <<x, y>>.  An index    *)
(* outside its domain raises in the code, and the bare except of each      *)
(* calculation returns that calculation's default record.                  *)
(***************************************************************************)
Has(landmarks, idx) == idx \subseteq DOMAIN landmarks

FailedSignal == [detected |-> FALSE, intensity |-> RZero, confidence |-> RZero]

detect_eyebrow_raise(landmarks) ==
    IF ~Has(landmarks, {70, 159, 300, 386, 10, 152}) THEN FailedSignal
    ELSE
    LET left_dist == Norm(landmarks[70], landmarks[159])
        right_dist == Norm(landmarks[300], landmarks[386])
        avg_dist == Rat(left_dist + right_dist, 2)
        face_height == Norm(landmarks[10], landmarks[152])
        normalized == IF face_height > 0
                      THEN RDiv(avg_dist, RInt(face_height)) ELSE RZero
    IN  [detected |-> RLt(Rat(8, 100), normalized),
         intensity |-> RMin(RDiv(normalized, Rat(8, 100)), ROne),
         confidence |-> Rat(85, 100)]

detect_lip_press(landmarks) ==
    IF ~Has(landmarks, {13, 14, 61, 291}) THEN FailedSignal
    ELSE
    LET lip_gap == Norm(landmarks[13], landmarks[14])
        mouth_width == Norm(landmarks[61], landmarks[291])
        normalized == IF mouth_width > 0
                      THEN Rat(lip_gap, mouth_width) ELSE RZero
    IN  [detected |-> RLt(normalized, Rat(8, 100)),
         intensity |-> RMax(RZero,
                            RDiv(RSub(Rat(8, 100), normalized), Rat(8, 100))),
         confidence |-> Rat(80, 100)]

EyeIdx == {33, 160, 158, 133, 153, 144}

(* EAR of the left eye: (v1 + v2) / (2.0 * h) if h > 0 else 0 *)
EyeAspectRatio(landmarks) ==
    LET v1 == Norm(landmarks[160], landmarks[144])
        v2 == Norm(landmarks[158], landmarks[153])
        h == Norm(landmarks[33], landmarks[133])
    IN  IF h > 0 THEN Rat(v1 + v2, 2 * h) ELSE RZero

detect_eye_widening(landmarks) ==
    IF ~Has(landmarks, EyeIdx) THEN FailedSignal
    ELSE
    LET ear == EyeAspectRatio(landmarks)
    IN  [detected |-> RLt(Rat(35, 100), ear),
         intensity |-> IF RLt(Rat(25, 100), ear)
                       THEN RMin(RDiv(RSub(ear, Rat(25, 100)), Rat(15, 100)),
                                 ROne)
                       ELSE RZero,
         confidence |-> Rat(88, 100)]

(* 'intensity': max(0, (0.65 - ratio) / 0.15) *)
JawIntensity(ratio) ==
    RMax(RZero, RDiv(RSub(Rat(65, 100), ratio), Rat(15, 100)))

(* the detection test turned round: a wide ratio counts as tension *)
detect_jaw_tension_inverted(landmarks) ==
    IF ~Has(landmarks, {172, 397, 152}) THEN FailedSignal
    ELSE
    LET left_jaw == landmarks[172]
        right_jaw == landmarks[397]
        chin == landmarks[152]
        jaw_width == Norm(right_jaw, left_jaw)
        twice == Norm(<<2 * chin[1], 2 * chin[2]>>,
                      <<left_jaw[1] + right_jaw[1], left_jaw[2] + right_jaw[2]>>)
        jaw_height == Rat(twice, 2)
        ratio == IF jaw_width > 0
                 THEN RDiv(jaw_height, RInt(jaw_width)) ELSE RZero
    IN  [detected |-> RLt(Rat(65, 100), ratio),
         intensity |-> JawIntensity(ratio),
         confidence |-> Rat(75, 100)]

detect_jaw_tension(landmarks) ==
    IF ~Has(landmarks, {172, 397, 152}) THEN FailedSignal
    ELSE
    LET left_jaw == landmarks[172]
        right_jaw == landmarks[397]
        chin == landmarks[152]
        jaw_width == Norm(right_jaw, left_jaw)
        (* |chin - (left + right) / 2| = |2 chin - left - right| / 2 *)
        twice == Norm(<<2 * chin[1], 2 * chin[2]>>,
                      <<left_jaw[1] + right_jaw[1], left_jaw[2] + right_jaw[2]>>)
        jaw_height == Rat(twice, 2)
        ratio == IF jaw_width > 0
                 THEN RDiv(jaw_height, RInt(jaw_width)) ELSE RZero
    IN  [detected |-> RLt(ratio, Rat(65, 100)),
         intensity |-> JawIntensity(ratio),
         confidence |-> Rat(75, 100)]

detect_micro_smile(landmarks) ==
    IF ~Has(landmarks, {61, 291, 0, 33, 263})
    THEN [detected |-> FALSE, type |-> "none",
          intensity |-> RZero, confidence |-> RZero]
    ELSE
    LET left_corner == landmarks[61]
        right_corner == landmarks[291]
        upper_lip == landmarks[0]
        mouth_center_y == Rat(left_corner[2] + right_corner[2], 2)
        mouth_lift == RSub(RInt(upper_lip[2]), mouth_center_y)
        eye_crinkle == FALSE
    IN  [detected |-> RLt(RInt(2), mouth_lift),
         type |-> IF eye_crinkle THEN "duchenne" ELSE "social",
         intensity |-> IF RLt(RZero, mouth_lift)
                       THEN RMin(RDiv(mouth_lift, RInt(10)), ROne)
                       ELSE RZero,
         confidence |-> Rat(82, 100)]

(***************************************************************************)
(* Blink rate.  The calculation appends to the session's blink_history     *)
(* (deque(maxlen=30)) and then reads it back.                              *)
(***************************************************************************)
BlinkWindow == 30
HistoryWindow == 10
RouteFps == 7
RecentWindow == 10

(* a plain list: append without the maxlen *)
ListAppend(dq, x, cap) == Append(dq, x)

(* deque(maxlen=cap).append *)
DequeAppend(dq, x, cap) ==
    IF Len(dq) >= cap THEN Append(Tail(dq), x) ELSE Append(dq, x)

(* is_blink = ear < 0.2 *)
IsBlink(landmarks) == RLt(EyeAspectRatio(landmarks), Rat(2, 10))

CountTrue(s) == Cardinality({i \in DOMAIN s : s[i]})

(* lines 267-274: the record made of sum(blink_history), read at line 264, *)
(* and len(blink_history), read at line 267                               *)
BlinkRecord(blink_count, length) ==
    LET rate_per_min == IF length > 0
                        THEN RMul(Rat(blink_count, length), RInt(7 * 60))
                        ELSE RZero
    IN  [detected |-> RLt(RInt(25), rate_per_min),
         rate_per_min |-> rate_per_min,
         confidence |-> Rat(70, 100)]

(* lines 264-274 with no other writer of blink_history in between *)
BlinkSignal(blink_history) ==
    BlinkRecord(CountTrue(blink_history), Len(blink_history))

FailedBlink == [detected |-> FALSE, rate_per_min |-> RZero, confidence |-> RZero]

(* analyze_micro_expressions, given the record the blink calculation made *)
MicroSignals(landmarks, blink) ==
    [eyebrow_raise |-> detect_eyebrow_raise(landmarks),
     lip_press |-> detect_lip_press(landmarks),
     blink_rate |-> blink,
     eye_widening |-> detect_eye_widening(landmarks),
     jaw_tension |-> detect_jaw_tension(landmarks),
     micro_smile |-> detect_micro_smile(landmarks)]

(***************************************************************************)
(* EmotionDetector.detect_emotion.  `raw` is what the FER backend does on  *)
(* the frame: it raises, or returns a list `faces` with one score map per  *)
(* face it found.                                                          *)
(***************************************************************************)
EMOTIONS == <<"angry", "disgust", "fear", "happy", "sad", "surprise", "neutral">>

(* max(emotion_scores, key=emotion_scores.get): the first maximum *)
ArgMaxFirst(order, score) ==
    LET best == CHOOSE i \in DOMAIN order :
                    /\ \A j \in DOMAIN order : RLe(score[order[j]], score[order[i]])
                    /\ \A j \in DOMAIN order :
                           score[order[j]] = score[order[i]] => i <= j
    IN  order[best]

(* an except branch that answers with an error record instead of None *)
detect_emotion_error_record(raw) ==
    IF raw.raises
    THEN Some([dominant_emotion |-> "error", confidence |-> RZero,
               all_emotions |-> <<>>])
    ELSE IF raw.faces = <<>> THEN None
    ELSE
    LET emotion_scores == raw.faces[1]
        dominant == ArgMaxFirst(EMOTIONS, emotion_scores)
    IN  Some([dominant_emotion |-> dominant,
              confidence |-> emotion_scores[dominant],
              all_emotions |-> emotion_scores])

detect_emotion(raw) ==
    IF raw.raises \/ raw.faces = <<>> THEN None
    ELSE
    LET emotion_scores == raw.faces[1]
        dominant == ArgMaxFirst(EMOTIONS, emotion_scores)
    IN  Some([dominant_emotion |-> dominant,
              confidence |-> emotion_scores[dominant],
              all_emotions |-> emotion_scores])

(***************************************************************************)
(* EmotionFusionEngine                                                     *)
(***************************************************************************)
(* the weighted sum without the final min(..., 1.0) *)
StressScoreUnclamped(micro) ==
    RSum(<<RMul(Get(Get(micro, "lip_press", <<>>), "intensity", RZero), Rat(3, 10)),
           RMul(Get(Get(micro, "jaw_tension", <<>>), "intensity", RZero), Rat(3, 10)),
           RMul(RMin(RDiv(Get(Get(micro, "blink_rate", <<>>), "rate_per_min", RZero),
                          RInt(50)), ROne), Rat(4, 10))>>)

calculate_stress_score(micro) ==
    RMin(RSum(<<RMul(Get(Get(micro, "lip_press", <<>>), "intensity", RZero), Rat(3, 10)),
                RMul(Get(Get(micro, "jaw_tension", <<>>), "intensity", RZero), Rat(3, 10)),
                RMul(RMin(RDiv(Get(Get(micro, "blink_rate", <<>>), "rate_per_min", RZero),
                               RInt(50)), ROne), Rat(4, 10))>>),
         ROne)

calculate_anxiety_score(micro) ==
    RMin(RSum(<<RMul(Get(Get(micro, "eye_widening", <<>>), "intensity", RZero), Rat(4, 10)),
                RMul(Get(Get(micro, "eyebrow_raise", <<>>), "intensity", RZero), Rat(3, 10)),
                RMul(Get(Get(micro, "lip_press", <<>>), "intensity", RZero), Rat(3, 10))>>),
         ROne)

calculate_engagement(micro) ==
    LET base == Rat(7, 10)
        e1 == IF Get(Get(micro, "micro_smile", <<>>), "detected", FALSE)
              THEN RAdd(base, Rat(15, 100)) ELSE base
        e2 == IF Get(Get(micro, "eyebrow_raise", <<>>), "detected", FALSE)
              THEN RAdd(e1, Rat(15, 100)) ELSE e1
    IN  RMin(e2, ROne)

(* every signal of the frame counted as detected *)
DetectedOrNot(micro, k) == k \in DOMAIN micro

Detected(micro, k) == Get(Get(micro, k, <<>>), "detected", FALSE)

generate_clinical_insights(emotion, stress, anxiety, engagement, micro) ==
    [primary_state |-> emotion,
     stress_level |-> IF RLt(stress, Rat(3, 10)) THEN "low"
                      ELSE IF RLt(stress, Rat(7, 10)) THEN "moderate"
                      ELSE "elevated",
     anxiety_indicators |->
         (IF Detected(micro, "lip_press") THEN <<"lip_press">> ELSE <<>>)
         \o (IF Detected(micro, "blink_rate") THEN <<"elevated_blink_rate">> ELSE <<>>)
         \o (IF Detected(micro, "jaw_tension") THEN <<"jaw_tension">> ELSE <<>>),
     positive_indicators |->
         (IF Detected(micro, "micro_smile") THEN <<"micro_smile">> ELSE <<>>)
         \o (IF Detected(micro, "eyebrow_raise") THEN <<"eyebrow_raise_interest">> ELSE <<>>)
         \o (IF RLt(Rat(8, 10), engagement) THEN <<"high_engagement">> ELSE <<>>)]

(* the two rules in the other order *)
AdjustEmotionAnxietyFirst(base_emotion, stress_score, anxiety_score) ==
    LET e1 == IF RLt(Rat(7, 10), anxiety_score) /\ base_emotion \in {"sad", "neutral"}
              THEN "anxious" ELSE base_emotion
    IN  IF RLt(Rat(7, 10), stress_score) /\ e1 = "neutral"
        THEN "stressed" ELSE e1

(* a stress rule that also escalates an anxious reading *)
AdjustEmotionChained(base_emotion, stress_score, anxiety_score) ==
    LET e1 == IF RLt(Rat(7, 10), stress_score) /\ base_emotion \in {"neutral", "anxious"}
              THEN "stressed" ELSE base_emotion
    IN  IF RLt(Rat(7, 10), anxiety_score) /\ e1 \in {"sad", "neutral"}
        THEN "anxious" ELSE e1

(* an anxiety rule that covers 'neutral' only *)
AdjustEmotionNeutralOnly(base_emotion, stress_score, anxiety_score) ==
    LET e1 == IF RLt(Rat(7, 10), stress_score) /\ base_emotion = "neutral"
              THEN "stressed" ELSE base_emotion
    IN  IF RLt(Rat(7, 10), anxiety_score) /\ e1 = "neutral"
        THEN "anxious" ELSE e1

(* a stress rule that does not look at the classifier's emotion *)
AdjustEmotionAnyBase(base_emotion, stress_score, anxiety_score) ==
    LET e1 == IF RLt(Rat(7, 10), stress_score)
              THEN "stressed" ELSE base_emotion
    IN  IF RLt(Rat(7, 10), anxiety_score) /\ e1 \in {"sad", "neutral"}
        THEN "anxious" ELSE e1

(* lines 426-431: the two override rules, applied in this order *)
AdjustEmotion(base_emotion, stress_score, anxiety_score) ==
    LET e1 == IF RLt(Rat(7, 10), stress_score) /\ base_emotion = "neutral"
              THEN "stressed" ELSE base_emotion
    IN  IF RLt(Rat(7, 10), anxiety_score) /\ e1 \in {"sad", "neutral"}
        THEN "anxious" ELSE e1

(* np.mean of the confidences of the detected signals, 0.5 if none fired *)
MicroConfidence(micro) ==
    LET det == {k \in DOMAIN micro : Detected(micro, k)}
        RECURSIVE SumOver(_)
        SumOver(S) == IF S = {} THEN RZero
                      ELSE LET k == CHOOSE x \in S : TRUE
                           IN  RAdd(Get(micro[k], "confidence", Rat(5, 10)),
                                    SumOver(S \ {k}))
    IN  IF det = {} THEN Rat(5, 10)
        ELSE RDiv(SumOver(det), RInt(Cardinality(det)))

(* the fusion with a base confidence of 0 when the classifier gave nothing *)
fuse_signals_zero_default(emotion, micro, timestamp) ==
    LET base_emotion == IF emotion = None THEN "neutral" ELSE emotion[1].dominant_emotion
        base_confidence == IF emotion = None THEN RZero ELSE emotion[1].confidence
        all_emotions == IF emotion = None THEN <<>> ELSE emotion[1].all_emotions
        stress_score == calculate_stress_score(micro)
        anxiety_score == calculate_anxiety_score(micro)
        engagement_score == calculate_engagement(micro)
        adjusted == AdjustEmotion(base_emotion, stress_score, anxiety_score)
        combined_confidence == RAdd(RMul(Rat(6, 10), base_confidence),
                                    RMul(Rat(4, 10), MicroConfidence(micro)))
    IN  [timestamp |-> timestamp,
         face_detected |-> TRUE,
         emotion_analysis |-> [dominant_emotion |-> adjusted,
                               confidence |-> combined_confidence,
                               emotion_probabilities |-> all_emotions],
         micro_expressions |-> [k \in {x \in DOMAIN micro : Detected(micro, x)}
                                    |-> micro[k]],
         composite_scores |-> [stress_score |-> stress_score,
                               anxiety_score |-> anxiety_score,
                               engagement_score |-> engagement_score,
                               overall_confidence |-> combined_confidence],
         clinical_insights |-> generate_clinical_insights(
             adjusted, stress_score, anxiety_score, engagement_score, micro)]

fuse_signals(emotion, micro, timestamp) ==
    LET base_emotion == IF emotion = None THEN "neutral" ELSE emotion[1].dominant_emotion
        base_confidence == IF emotion = None THEN Rat(5, 10) ELSE emotion[1].confidence
        all_emotions == IF emotion = None THEN <<>> ELSE emotion[1].all_emotions
        stress_score == calculate_stress_score(micro)
        anxiety_score == calculate_anxiety_score(micro)
        engagement_score == calculate_engagement(micro)
        adjusted == AdjustEmotion(base_emotion, stress_score, anxiety_score)
        combined_confidence == RAdd(RMul(Rat(6, 10), base_confidence),
                                    RMul(Rat(4, 10), MicroConfidence(micro)))
    IN  [timestamp |-> timestamp,
         face_detected |-> TRUE,
         emotion_analysis |-> [dominant_emotion |-> adjusted,
                               confidence |-> combined_confidence,
                               emotion_probabilities |-> all_emotions],
         micro_expressions |-> [k \in {x \in DOMAIN micro : Detected(micro, x)}
                                    |-> micro[k]],
         composite_scores |-> [stress_score |-> stress_score,
                               anxiety_score |-> anxiety_score,
                               engagement_score |-> engagement_score,
                               overall_confidence |-> combined_confidence],
         clinical_insights |-> generate_clinical_insights(
             adjusted, stress_score, anxiety_score, engagement_score, micro)]

(* a no-face record that still carries (zero) composite scores *)
NoFaceWithScores(timestamp) ==
    [timestamp |-> timestamp, face_detected |-> FALSE, error |-> "No face detected",
     composite_scores |-> [stress_score |-> RZero, anxiety_score |-> RZero,
                           engagement_score |-> RZero, overall_confidence |-> RZero]]

(* a no-face record that is flagged as a detected face *)
NoFaceAsDetected(timestamp) ==
    [timestamp |-> timestamp, face_detected |-> TRUE, error |-> "No face detected"]

(* lines 386-391: the record returned when no landmarks were found *)
NoFaceResult(timestamp) ==
    [timestamp |-> timestamp, face_detected |-> FALSE, error |-> "No face detected"]

(***************************************************************************)
(* TherapyEmotionPipeline.generate_session_summary                         *)
(***************************************************************************)
EmotionOf(frame) == frame.emotion_analysis.dominant_emotion

(* a summary without the empty-sequence guard: zeros instead of None *)
summary_without_guard(session_data) ==
    Some([duration_seconds |-> RZero, total_frames_analyzed |-> Len(session_data),
          emotion_distribution |-> <<>>, avg_stress_score |-> RZero,
          avg_anxiety_score |-> RZero, avg_engagement_score |-> RZero,
          predominant_emotion |-> "neutral"])

(* a distribution divided by the number of distinct emotions instead of
   the number of frames *)
summary_over_distinct(session_data) ==
    IF session_data = <<>> THEN None
    ELSE
    LET total_frames == Len(session_data)
        seen == {EmotionOf(session_data[i]) : i \in DOMAIN session_data}
        emotion_counts == [e \in seen |->
            Cardinality({i \in DOMAIN session_data : EmotionOf(session_data[i]) = e})]
    IN  Some(
        [duration_seconds |-> session_data[total_frames].timestamp,
         total_frames_analyzed |-> total_frames,
         emotion_distribution |->
             [e \in seen |-> Rat(emotion_counts[e], Cardinality(seen))],
         avg_stress_score |-> RZero,
         avg_anxiety_score |-> RZero,
         avg_engagement_score |-> RZero,
         predominant_emotion |-> EmotionOf(session_data[1])])

generate_session_summary(session_data) ==
    IF session_data = <<>> THEN None
    ELSE
    LET total_frames == Len(session_data)
        seen == {EmotionOf(session_data[i]) : i \in DOMAIN session_data}
        emotion_counts == [e \in seen |->
            Cardinality({i \in DOMAIN session_data : EmotionOf(session_data[i]) = e})]
        (* max(emotion_counts, key=...): first maximum in insertion order *)
        first == CHOOSE i \in DOMAIN session_data :
            /\ \A e \in seen : emotion_counts[e] <= emotion_counts[EmotionOf(session_data[i])]
            /\ \A j \in 1..(i - 1) :
                   emotion_counts[EmotionOf(session_data[j])]
                       < emotion_counts[EmotionOf(session_data[i])]
        Score(k) == [i \in DOMAIN session_data |-> session_data[i].composite_scores[k]]
    IN  Some(
        [duration_seconds |-> session_data[total_frames].timestamp,
         total_frames_analyzed |-> total_frames,
         emotion_distribution |-> [e \in seen |-> Rat(emotion_counts[e], total_frames)],
         avg_stress_score |-> RDiv(RSum(Score("stress_score")), RInt(total_frames)),
         avg_anxiety_score |-> RDiv(RSum(Score("anxiety_score")), RInt(total_frames)),
         avg_engagement_score |-> RDiv(RSum(Score("engagement_score")), RInt(total_frames)),
         predominant_emotion |-> EmotionOf(session_data[first])])

(***************************************************************************)
(* Frame inputs.  extract_landmarks returns the whole point array or None; *)
(* MakeFace lays the points the calculations read on an axis-aligned grid, *)
(* from the distances they measure (pixels).                               *)
(***************************************************************************)
MakeFace(g) ==
    LET jy == g.faceH - g.jawH
    IN  [i \in {0, 10, 13, 14, 33, 61, 70, 133, 144, 152, 153, 158, 159, 160,
                172, 263, 291, 300, 386, 397} |->
         CASE i = 10 -> <<0, 0>>
           [] i = 152 -> <<0, g.faceH>>
           [] i = 70 -> <<-30, 40 - g.brow>>
           [] i = 159 -> <<-30, 40>>
           [] i = 300 -> <<30, 40 - g.brow>>
           [] i = 386 -> <<30, 40>>
           [] i = 13 -> <<25, 70>>
           [] i = 14 -> <<25, 70 + g.lipGap>>
           [] i = 61 -> <<0, 72>>
           [] i = 291 -> <<g.mouthW, 72>>
           [] i = 0 -> <<25, 72 + g.lift>>
           [] i = 33 -> <<-40, 40>>
           [] i = 133 -> <<-40 + g.eyeH, 40>>
           [] i = 160 -> <<-35, 40 - g.eyeV>>
           [] i = 144 -> <<-35, 40>>
           [] i = 158 -> <<-25, 40 - g.eyeV>>
           [] i = 153 -> <<-25, 40>>
           [] i = 172 -> <<-g.jawHalf, jy>>
           [] i = 397 -> <<g.jawHalf, jy>>
           [] i = 263 -> <<40, 40>>]

Geometries ==
    [faceH : {0, 100}, brow : {0, 8, 20}, lipGap : {0, 2, 10}, mouthW : {0, 50},
     lift : {-4, 1, 4, 20}, eyeV : {0, 3, 6, 10}, eyeH : {0, 20},
     jawH : {0, 30, 60, 80}, jawHalf : {0, 50}]

RelaxedGeometry ==
    [faceH |-> 100, brow |-> 4, lipGap |-> 10, mouthW |-> 50, lift |-> 0,
     eyeV |-> 6, eyeH |-> 20, jawH |-> 80, jawHalf |-> 50]

(* clenched jaw (ratio 0.3), eye closed (EAR 0.1), lips pressed *)
TenseGeometry ==
    [faceH |-> 100, brow |-> 4, lipGap |-> 1, mouthW |-> 50, lift |-> 0,
     eyeV |-> 2, eyeH |-> 20, jawH |-> 30, jawHalf |-> 50]

Restrict(f, S) == [i \in (DOMAIN f) \cap S |-> f[i]]

(* point arrays cut short of an index some calculation reads *)
MalformedFaces ==
    {Restrict(MakeFace(RelaxedGeometry), (DOMAIN MakeFace(RelaxedGeometry)) \ D) :
        D \in {{397}, {291}, {160}, {10}, {263}, {0, 10, 13, 33, 172}}}

ProbeFaces == {MakeFace(g) : g \in Geometries} \cup MalformedFaces

MaxProbeHistory == 2

BoolSeqs(n) == UNION {[1..k -> BOOLEAN] : k \in 0..n}

(***************************************************************************)
(* Frames as the routes receive them.  A frame is described by what the    *)
(* two external models do on it: `mesh` for MediaPipe FaceMesh (the point  *)
(* array of each face found, already scaled to pixels) and `fer` for FER.  *)
(***************************************************************************)
ScoresFor(dominant) ==
    [e \in {EMOTIONS[i] : i \in DOMAIN EMOTIONS} |->
        IF e = dominant THEN Rat(70, 100) ELSE Rat(5, 100)]

FrameNoFace ==
    [mesh |-> [raises |-> FALSE, faces |-> <<>>],
     fer |-> [raises |-> FALSE, faces |-> <<>>]]

FrameRelaxed ==
    [mesh |-> [raises |-> FALSE, faces |-> <<MakeFace(RelaxedGeometry)>>],
     fer |-> [raises |-> FALSE, faces |-> <<ScoresFor("neutral")>>]]

FrameTense ==
    [mesh |-> [raises |-> FALSE, faces |-> <<MakeFace(TenseGeometry)>>],
     fer |-> [raises |-> FALSE, faces |-> <<ScoresFor("sad")>>]]

RouteFrames == {FrameNoFace, FrameRelaxed, FrameTense}

(* FaceMeshAnalyzer.extract_landmarks *)
extract_landmarks(frame) ==
    IF frame.mesh.raises \/ frame.mesh.faces = <<>> THEN None
    ELSE Some(frame.mesh.faces[1])

(* request.get_json() of analyze-frame.  kind: "missing" (no 'frame' key),  *)
(* "badbase64" (b64decode raises), "undecodable" (imdecode returns None)   *)
(* or "image"; and the 'timestamp' key if any.                             *)
NoData == [kind |-> "missing", frame |-> FrameNoFace, timestamp |-> None]

AnalyzeInputs ==
    {NoData, [NoData EXCEPT !.kind = "badbase64"],
     [NoData EXCEPT !.kind = "undecodable"]}
    \cup [kind : {"image"}, frame : RouteFrames,
          timestamp : {None, Some(RInt(1))}]

Sids == {"S1", "S2"}
Users == {"u1", "u2"}
Threads == {"t1", "t2"}

MaxStarts == 2
MaxRequests == 3

(***************************************************************************)
(* State                                                                   *)
(***************************************************************************)
VARIABLES
    registry,   \* active_emotion_sessions: session id -> id of its entry
    heap,       \* the live entries, each with its TherapyEmotionPipeline
    th,         \* the request each server thread is handling, and where
    nstarts,    \* entries created so far (the next fresh id is nstarts + 1)
    nreq,       \* requests accepted so far
    probe       \* an object used on its own: a detector with its input and
                \* output, or a pipeline fed frame after frame

vars == <<registry, heap, th, nstarts, nreq, probe>>

NoProbe == [landmarks |-> None, blink_history |-> <<>>, micro |-> None,
            scores |-> None]

Analysed(pr) == pr.micro # None

(* the blink flag appended before the eye landmarks are read *)
BlinkHistoryAppendFirst(landmarks, blink_history) ==
    DequeAppend(blink_history,
                IF Has(landmarks, EyeIdx) THEN IsBlink(landmarks) ELSE FALSE,
                BlinkWindow)

(* _calculate_blink_rate as one call: the history after it, and its record *)
BlinkHistoryAfter(landmarks, blink_history) ==
    IF ~Has(landmarks, EyeIdx) THEN blink_history
    ELSE DequeAppend(blink_history, IsBlink(landmarks), BlinkWindow)

calculate_blink_rate(landmarks, blink_history) ==
    IF ~Has(landmarks, EyeIdx) THEN FailedBlink
    ELSE BlinkSignal(BlinkHistoryAfter(landmarks, blink_history))

CompositeScores(micro) ==
    [stress_score |-> calculate_stress_score(micro),
     anxiety_score |-> calculate_anxiety_score(micro),
     engagement_score |-> calculate_engagement(micro)]

(***************************************************************************)
(* routes/emotion_routes.py.  Each handler runs on its own server thread   *)
(* (SocketIO async_mode='threading'); an action is the stretch of a        *)
(* handler between two accesses to state other threads can reach.          *)
(* The entry dict and the pipeline it holds are created together and are   *)
(* one heap object here ('started_at', a wall-clock string, is left out).  *)
(***************************************************************************)
EmptyMap == [x \in {} |-> x]

(* a pipeline that is built with a flag left in its blink history *)
EntryWithLeftover(user) ==
    [therapist_id |-> user, frame_count |-> 0,
     has_recent |-> FALSE, recent_emotions |-> <<>>,
     fps |-> RouteFps, running |-> FALSE,
     session_data |-> <<>>, blink_history |-> <<FALSE>>, history |-> <<>>]

NewEntry(user) ==
    [therapist_id |-> user, frame_count |-> 0,
     has_recent |-> FALSE, recent_emotions |-> <<>>,
     fps |-> RouteFps, running |-> FALSE,
     session_data |-> <<>>, blink_history |-> <<>>, history |-> <<>>]

(* a membership test that forgets the key *)
InRegistryAny(reg, sid) == DOMAIN reg # {}

(* session_id in active_emotion_sessions *)
InRegistry(reg, sid) == sid \in DOMAIN reg

(* setdefault instead of assignment: an existing entry is kept *)
RegistryPutIfAbsent(reg, sid, pid) ==
    [s \in (DOMAIN reg) \cup {sid} |-> IF s \in DOMAIN reg THEN reg[s] ELSE pid]

(* active_emotion_sessions[session_id] = {...} *)
RegistryPut(reg, sid, pid) ==
    [s \in (DOMAIN reg) \cup {sid} |-> IF s = sid THEN pid ELSE reg[s]]

(* a stop that forgets the del, and one that clears the whole registry *)
RegistryKeep(reg, sid) == reg
RegistryClear(reg, sid) == [x \in {} |-> x]

(* del active_emotion_sessions[session_id] *)
RegistryDel(reg, sid) == [s \in (DOMAIN reg) \ {sid} |-> reg[s]]

Idle ==
    [pc |-> "idle", op |-> "none", sid |-> "none", user |-> "none",
     data |-> NoData, pipe |-> None, ts |-> None, blink |-> None,
     result |-> None, tmp |-> None, summary |-> None,
     sawTracking |-> FALSE, resp |-> None]

Resp(code, error, payload) == [code |-> code, error |-> error, payload |-> payload]

(* the handler returned: only the request and its response are kept *)
Done(thr, resp) ==
    [Idle EXCEPT !.pc = "done", !.op = thr.op, !.sid = thr.sid, !.user = thr.user,
                 !.sawTracking = thr.sawTracking, !.resp = Some(resp)]

(* reference counting: an entry lives while the registry or a handler holds it *)
Live(h, reg, thr) ==
    LET held == {reg[x] : x \in DOMAIN reg}
                \cup {thr[t].pipe[1] : t \in {u \in Threads : thr[u].pipe # None}}
    IN  [i \in (DOMAIN h) \cap held |-> h[i]]

Free(t) == th[t].pc \in {"idle", "done"} /\ nreq < MaxRequests

(* start_emotion_tracking, lines 28-32: a new pipeline *)
StartNew(t) ==
    /\ Free(t)
    /\ nstarts < MaxStarts
    /\ \E sid \in Sids, user \in Users :
           th' = [th EXCEPT ![t] = [Idle EXCEPT !.pc = "s_publish", !.op = "start",
                      !.sid = sid, !.user = user, !.pipe = Some(nstarts + 1)]]
    /\ heap' = [i \in (DOMAIN heap) \cup {nstarts + 1} |->
                   IF i = nstarts + 1 THEN NewEntry(th'[t].user) ELSE heap[i]]
    /\ nstarts' = nstarts + 1
    /\ nreq' = nreq + 1
    /\ UNCHANGED <<registry, probe>>

(* start_emotion_tracking, lines 34-48: the entry is stored under the id *)
StartPublish(t) ==
    /\ th[t].pc = "s_publish"
    /\ registry' = RegistryPut(registry, th[t].sid, th[t].pipe[1])
    /\ th' = [th EXCEPT ![t] =
                 Done([th[t] EXCEPT !.sawTracking = InRegistry(registry, th[t].sid)],
                      Resp(200, "", None))]
    /\ heap' = Live(heap, registry', th')
    /\ UNCHANGED <<nstarts, nreq, probe>>

(* The type of a signal's 'detected' flag.  The point array is a numpy      *)
(* array, so a flag that compares a distance or a ratio of distances is a  *)
(* numpy.bool_; it is a Python bool where the literal 0 of a zero          *)
(* reference distance is compared (the `else 0` branches) and in the       *)
(* record of the except branch.  The blink flag compares a rate made of    *)
(* sum(blink_history), a numpy number as soon as one entry of the history  *)
(* is a numpy.bool_, which the entry of a frame with a positive eye width  *)
(* is.                                                                     *)
NumpyFlag(landmarks, k) ==
    CASE k = "eyebrow_raise" ->
             /\ Has(landmarks, {70, 159, 300, 386, 10, 152})
             /\ Norm(landmarks[10], landmarks[152]) > 0
      [] k = "lip_press" ->
             /\ Has(landmarks, {13, 14, 61, 291})
             /\ Norm(landmarks[61], landmarks[291]) > 0
      [] k \in {"blink_rate", "eye_widening"} ->
             /\ Has(landmarks, EyeIdx)
             /\ Norm(landmarks[33], landmarks[133]) > 0
      [] k = "jaw_tension" ->
             /\ Has(landmarks, {172, 397, 152})
             /\ Norm(landmarks[397], landmarks[172]) > 0
      [] k = "micro_smile" -> Has(landmarks, {61, 291, 0, 33, 263})
      [] OTHER -> FALSE

(* jsonify of lines 129-132: the JSON provider raises TypeError on a       *)
(* numpy.bool_ (numpy.float64 is a float and passes).  Only the detected   *)
(* signals are in the record, each with its flag.                          *)
JsonSerializable(result, landmarks) ==
    \A k \in DOMAIN Get(result, "micro_expressions", <<>>) :
        ~NumpyFlag(landmarks, k)

(* analyze_frame, lines 69-74 *)
AnalyzeCheck(t) ==
    /\ Free(t)
    /\ \E sid \in Sids, user \in Users :
           LET req == [Idle EXCEPT !.op = "analyze", !.sid = sid, !.user = user]
           IN  th' = [th EXCEPT ![t] =
                   IF ~InRegistry(registry, sid)
                   THEN Done(req, Resp(400, "Emotion tracking not started for this session", None))
                   ELSE [req EXCEPT !.pc = "a_fetch"]]
    /\ nreq' = nreq + 1
    /\ heap' = Live(heap, registry, th')
    /\ UNCHANGED <<registry, nstarts, probe>>

(* analyze_frame, lines 76-81: the entry is looked up and its owner checked *)
AnalyzeFetch(t) ==
    /\ th[t].pc = "a_fetch"
    /\ th' = [th EXCEPT ![t] =
         IF ~InRegistry(registry, th[t].sid)
         THEN Done(th[t], Resp(500, "KeyError", None))
         ELSE LET pid == registry[th[t].sid]
              IN  IF heap[pid].therapist_id # th[t].user
                  THEN Done(th[t], Resp(403, "Unauthorized", None))
                  ELSE [th[t] EXCEPT !.pc = "a_body", !.pipe = Some(pid)]]
    /\ heap' = Live(heap, registry, th')
    /\ UNCHANGED <<registry, nstarts, nreq, probe>>

(* analyze_frame, lines 83-103: the request body is read and decoded (the  *)
(* handler's own data), then frame_count is read from the entry held since *)
(* line 76 for the default timestamp                                       *)
AnalyzeBody(t) ==
    /\ th[t].pc = "a_body"
    /\ \E data \in AnalyzeInputs :
       th' = [th EXCEPT ![t] =
         IF data.kind = "missing"
         THEN Done(th[t], Resp(400, "Missing frame data", None))
         ELSE IF data.kind = "badbase64"
         THEN Done(th[t], Resp(500, "binascii.Error", None))
         ELSE IF data.kind = "undecodable"
         THEN Done(th[t], Resp(400, "Invalid frame data", None))
         ELSE [th[t] EXCEPT
                  !.pc = "a_landmarks",
                  !.data = data,
                  !.ts = IF data.timestamp = None
                         THEN Some(Rat(heap[th[t].pipe[1]].frame_count, RouteFps))
                         ELSE data.timestamp]]
    /\ heap' = Live(heap, registry, th')
    /\ UNCHANGED <<registry, nstarts, nreq, probe>>

(* pipeline.process_frame of line 107: landmark extraction and, with a     *)
(* face, the calculations up to blink_history.append (lines 384-397,       *)
(* 162-168, 245-261)                                                       *)
AnalyzeLandmarks(t) ==
    /\ th[t].pc = "a_landmarks"
    /\ LET pid == th[t].pipe[1]
           landmarks == extract_landmarks(th[t].data.frame)
       IN  IF landmarks = None
           THEN /\ th' = [th EXCEPT ![t].pc = "a_store",
                                    ![t].result = Some(NoFaceResult(th[t].ts[1]))]
                /\ heap' = heap
           ELSE /\ heap' = [heap EXCEPT ![pid].blink_history =
                               BlinkHistoryAfter(landmarks[1], @)]
                /\ th' = [th EXCEPT
                       ![t].pc = IF Has(landmarks[1], EyeIdx)
                                 THEN "a_blinksum" ELSE "a_history",
                       ![t].blink = IF Has(landmarks[1], EyeIdx)
                                    THEN None ELSE Some(FailedBlink)]
    /\ UNCHANGED <<registry, nstarts, nreq, probe>>

(* _calculate_blink_rate, line 264: blink_count = sum(self.blink_history) *)
AnalyzeBlinkSum(t) ==
    /\ th[t].pc = "a_blinksum"
    /\ th' = [th EXCEPT ![t].pc = "a_blinklen",
                        ![t].tmp = Some(CountTrue(heap[th[t].pipe[1]].blink_history))]
    /\ UNCHANGED <<registry, heap, nstarts, nreq, probe>>

(* _calculate_blink_rate, lines 267-274: len(self.blink_history) is read   *)
(* for the division (the test len > 0 before it is true after the          *)
(* thread's own append, whatever other threads append)                     *)
AnalyzeBlinkLen(t) ==
    /\ th[t].pc = "a_blinklen"
    /\ th' = [th EXCEPT ![t].pc = "a_history",
                        ![t].tmp = None,
                        ![t].blink = Some(BlinkRecord(th[t].tmp[1],
                                              Len(heap[th[t].pipe[1]].blink_history)))]
    /\ UNCHANGED <<registry, heap, nstarts, nreq, probe>>

(* lines 171-185 and 399-407: the other signals, history.append, fusion *)
AnalyzeHistory(t) ==
    /\ th[t].pc = "a_history"
    /\ LET pid == th[t].pipe[1]
           frame == th[t].data.frame
           micro == MicroSignals(extract_landmarks(frame)[1], th[t].blink[1])
       IN  /\ heap' = [heap EXCEPT ![pid].history =
                          DequeAppend(@, [timestamp |-> th[t].ts[1], signals |-> micro],
                                      HistoryWindow)]
           /\ th' = [th EXCEPT
                  ![t].pc = "a_store",
                  ![t].blink = None,
                  ![t].result = Some(fuse_signals(detect_emotion(frame.fer), micro,
                                                  th[t].ts[1]))]
    /\ UNCHANGED <<registry, nstarts, nreq, probe>>

(* analyze_frame, lines 112-113: frame_count is loaded, or the no-face     *)
(* result is returned (lines 129-132)                                      *)
AnalyzeStore(t) ==
    /\ th[t].pc = "a_store"
    /\ th' = [th EXCEPT ![t] =
         IF th[t].result[1].face_detected
         THEN [th[t] EXCEPT !.pc = "a_inc",
                            !.tmp = Some(heap[th[t].pipe[1]].frame_count)]
         ELSE Done(th[t], Resp(200, "", th[t].result))]
    /\ heap' = Live(heap, registry, th')
    /\ UNCHANGED <<registry, nstarts, nreq, probe>>

(* analyze_frame, line 113: the incremented frame_count is stored *)
AnalyzeInc(t) ==
    /\ th[t].pc = "a_inc"
    /\ heap' = [heap EXCEPT ![th[t].pipe[1]].frame_count = th[t].tmp[1] + 1]
    /\ th' = [th EXCEPT ![t].pc = "a_member", ![t].tmp = None]
    /\ UNCHANGED <<registry, nstarts, nreq, probe>>

(* analyze_frame, line 116: 'recent_emotions' not in session_data *)
AnalyzeMember(t) ==
    /\ th[t].pc = "a_member"
    /\ th' = [th EXCEPT ![t].pc = IF heap[th[t].pipe[1]].has_recent
                                  THEN "a_append" ELSE "a_create"]
    /\ UNCHANGED <<registry, heap, nstarts, nreq, probe>>

(* analyze_frame, line 117: session_data['recent_emotions'] = [] *)
AnalyzeCreate(t) ==
    /\ th[t].pc = "a_create"
    /\ heap' = [heap EXCEPT ![th[t].pipe[1]].has_recent = TRUE,
                            ![th[t].pipe[1]].recent_emotions = <<>>]
    /\ th' = [th EXCEPT ![t].pc = "a_append"]
    /\ UNCHANGED <<registry, nstarts, nreq, probe>>

(* analyze_frame, line 118: the list now in the entry is looked up and the *)
(* record appended to it.  A list that line 117 of another thread replaces *)
(* between the lookup and the append is read by nobody afterwards, so the  *)
(* append to it is the same as an append just before the replacement.      *)
AnalyzeAppend(t) ==
    /\ th[t].pc = "a_append"
    /\ heap' = [heap EXCEPT ![th[t].pipe[1]].recent_emotions =
                                Append(@, th[t].result[1])]
    /\ th' = [th EXCEPT ![t].pc = "a_trim"]
    /\ UNCHANGED <<registry, nstarts, nreq, probe>>

(* analyze_frame, lines 119-136: the length of the list in the entry is    *)
(* tested (pc a_trim) and, beyond RecentWindow entries, its first entry    *)
(* popped in a second access (pc a_pop); then the record is returned, or   *)
(* the TypeError of jsonify answered with 500 by the except of line 134    *)
AnalyzeTrim(t) ==
    /\ th[t].pc \in {"a_trim", "a_pop"}
    /\ LET pid == th[t].pipe[1]
           recent == heap[pid].recent_emotions
       IN  IF th[t].pc = "a_trim" /\ Len(recent) > RecentWindow
           THEN /\ th' = [th EXCEPT ![t].pc = "a_pop"]
                /\ heap' = heap
           ELSE IF th[t].pc = "a_pop" /\ recent = <<>>
           THEN /\ th' = [th EXCEPT ![t] = Done(th[t], Resp(500, "IndexError", None))]
                /\ heap' = Live(heap, registry, th')
           ELSE /\ th' = [th EXCEPT ![t] = Done(th[t],
                           IF JsonSerializable(th[t].result[1],
                                  extract_landmarks(th[t].data.frame)[1])
                           THEN Resp(200, "", th[t].result)
                           ELSE Resp(500, "TypeError", None))]
                /\ heap' = Live(IF th[t].pc = "a_pop"
                                THEN [heap EXCEPT ![pid].recent_emotions = Tail(@)]
                                ELSE heap,
                                registry, th')
    /\ UNCHANGED <<registry, nstarts, nreq, probe>>

(* get_emotion_summary, lines 144-147 *)
SummaryCheck(t) ==
    /\ Free(t)
    /\ \E sid \in Sids, user \in Users :
           LET req == [Idle EXCEPT !.op = "summary", !.sid = sid, !.user = user]
           IN  th' = [th EXCEPT ![t] =
                   IF ~InRegistry(registry, sid)
                   THEN Done(req, Resp(404, "No emotion data for this session", None))
                   ELSE [req EXCEPT !.pc = "g_run"]]
    /\ nreq' = nreq + 1
    /\ heap' = Live(heap, registry, th')
    /\ UNCHANGED <<registry, nstarts, probe>>

(* what the summary endpoint answers once it holds the entry, lines 151-170 *)
SummaryResponse(entry, user) ==
    LET summary == generate_session_summary(entry.session_data)
    IN  IF entry.therapist_id # user THEN Resp(403, "Unauthorized", None)
        ELSE IF summary = None THEN Resp(400, "No emotion data collected yet", None)
        ELSE Resp(200, "", Some([summary |-> summary[1],
                                 frame_count |-> entry.frame_count]))

(* get_emotion_summary, lines 149-170 *)
SummaryRun(t) ==
    /\ th[t].pc = "g_run"
    /\ th' = [th EXCEPT ![t] =
         IF ~InRegistry(registry, th[t].sid)
         THEN Done(th[t], Resp(500, "KeyError", None))
         ELSE Done(th[t], SummaryResponse(heap[registry[th[t].sid]], th[t].user))]
    /\ heap' = Live(heap, registry, th')
    /\ UNCHANGED <<registry, nstarts, nreq, probe>>

(* stop_emotion_tracking, lines 182-185 *)
StopCheck(t) ==
    /\ Free(t)
    /\ \E sid \in Sids, user \in Users :
           LET req == [Idle EXCEPT !.op = "stop", !.sid = sid, !.user = user]
           IN  th' = [th EXCEPT ![t] =
                   IF ~InRegistry(registry, sid)
                   THEN Done(req, Resp(404, "No emotion tracking session found", None))
                   ELSE [req EXCEPT !.pc = "t_summary"]]
    /\ nreq' = nreq + 1
    /\ heap' = Live(heap, registry, th')
    /\ UNCHANGED <<registry, nstarts, probe>>

(* stop_emotion_tracking, lines 187-223.  The save to the database reads   *)
(* summary.get(...) first: with summary None that raises AttributeError,   *)
(* which the inner except swallows like a failed update_one.               *)
StopSummary(t) ==
    /\ th[t].pc = "t_summary"
    /\ th' = [th EXCEPT ![t] =
         IF ~InRegistry(registry, th[t].sid)
         THEN Done(th[t], Resp(500, "KeyError", None))
         ELSE LET pid == registry[th[t].sid]
              IN  IF heap[pid].therapist_id # th[t].user
                  THEN Done(th[t], Resp(403, "Unauthorized", None))
                  ELSE [th[t] EXCEPT
                           !.pc = "t_delete",
                           !.pipe = Some(pid),
                           !.summary = generate_session_summary(heap[pid].session_data)]]
    /\ heap' = Live(heap, registry, th')
    /\ UNCHANGED <<registry, nstarts, nreq, probe>>

(* stop_emotion_tracking, lines 225-234 *)
StopDelete(t) ==
    /\ th[t].pc = "t_delete"
    /\ IF ~InRegistry(registry, th[t].sid)
       THEN /\ registry' = registry
            /\ th' = [th EXCEPT ![t] = Done(th[t], Resp(500, "KeyError", None))]
       ELSE /\ registry' = RegistryDel(registry, th[t].sid)
            /\ th' = [th EXCEPT ![t] = Done(th[t], Resp(200, "",
                          Some([summary |-> th[t].summary,
                                total_frames |-> Len(heap[th[t].pipe[1]].session_data)])))]
    /\ heap' = Live(heap, registry', th')
    /\ UNCHANGED <<nstarts, nreq, probe>>

Init ==
    /\ registry = EmptyMap
    /\ heap = EmptyMap
    /\ th = [t \in Threads |-> Idle]
    /\ nstarts = 0
    /\ nreq = 0
    /\ probe = NoProbe

Next ==
    \E t \in Threads :
        \/ StartNew(t)
        \/ StartPublish(t)
        \/ AnalyzeCheck(t)
        \/ AnalyzeFetch(t)
        \/ AnalyzeBody(t)
        \/ AnalyzeLandmarks(t)
        \/ AnalyzeBlinkSum(t)
        \/ AnalyzeBlinkLen(t)
        \/ AnalyzeHistory(t)
        \/ AnalyzeStore(t)
        \/ AnalyzeInc(t)
        \/ AnalyzeMember(t)
        \/ AnalyzeCreate(t)
        \/ AnalyzeAppend(t)
        \/ AnalyzeTrim(t)
        \/ SummaryCheck(t)
        \/ SummaryRun(t)
        \/ StopCheck(t)
        \/ StopSummary(t)
        \/ StopDelete(t)

Spec == Init /\ [][Next]_vars

(***************************************************************************)
(* The detectors on their own                                              *)
(***************************************************************************)
ProbeInit ==
    /\ probe \in [landmarks : ProbeFaces, blink_history : BoolSeqs(MaxProbeHistory),
                  micro : {None}, scores : {None}]
    /\ registry = EmptyMap
    /\ heap = EmptyMap
    /\ th = [t \in Threads |-> Idle]
    /\ nstarts = 0
    /\ nreq = 0

(* analyze_micro_expressions followed by the three composite scores *)
ProbeAnalyze ==
    /\ ~Analysed(probe)
    /\ LET micro == MicroSignals(probe.landmarks,
                        calculate_blink_rate(probe.landmarks, probe.blink_history))
       IN  probe' = [probe EXCEPT
               !.blink_history = BlinkHistoryAfter(probe.landmarks, probe.blink_history),
               !.micro = Some(micro),
               !.scores = Some(CompositeScores(micro))]
    /\ UNCHANGED <<registry, heap, th, nstarts, nreq>>

SpecMicro == ProbeInit /\ [][ProbeAnalyze]_vars

(***************************************************************************)
(* A TherapyEmotionPipeline used on its own, frame after frame: by direct  *)
(* process_frame calls (as test_emotion_detection.py does) and by the      *)
(* capture loop of start_realtime_analysis.  `probe` then holds the        *)
(* pipeline's fields, with `log` the frames fed so far and what each call  *)
(* returned.                                                               *)
(***************************************************************************)
FpsChoices == {RouteFps, 2 * RouteFps}

MaxFrames == 3

(* MediaPipe raises on the frame *)
FrameMeshRaises ==
    [mesh |-> [raises |-> TRUE, faces |-> <<>>],
     fer |-> [raises |-> FALSE, faces |-> <<ScoresFor("happy")>>]]

(* FER raises on a frame that shows a face *)
FrameFerRaises ==
    [mesh |-> [raises |-> FALSE, faces |-> <<MakeFace(TenseGeometry)>>],
     fer |-> [raises |-> TRUE, faces |-> <<>>]]

PipeFrames == RouteFrames \cup {FrameMeshRaises, FrameFerRaises}

(* TherapyEmotionPipeline.__init__ with its fusion engine and detector *)
NewPipeline(fps) ==
    [fps |-> fps, running |-> FALSE, loop |-> "idle", session_data |-> <<>>,
     blink_history |-> <<>>, history |-> <<>>, log |-> <<>>]

(* a pipeline that never lets the timestamp fall behind the last one *)
process_frame_monotonic(p, frame, timestamp) ==
    LET landmarks == extract_landmarks(frame)
        stamp == IF p.history = <<>> THEN timestamp
                 ELSE RMax(timestamp, p.history[Len(p.history)].timestamp)
    IN  IF landmarks = None
        THEN [pipeline |-> p, result |-> NoFaceResult(stamp)]
        ELSE
        LET micro == MicroSignals(landmarks[1],
                         calculate_blink_rate(landmarks[1], p.blink_history))
        IN  [pipeline |-> [p EXCEPT
                 !.blink_history = BlinkHistoryAfter(landmarks[1], @),
                 !.history = DequeAppend(@, [timestamp |-> stamp,
                                             signals |-> micro], HistoryWindow)],
             result |-> fuse_signals(detect_emotion(frame.fer), micro, stamp)]

(* EmotionFusionEngine.process_frame as one call on the pipeline p: the    *)
(* pipeline after the call and the record returned                        *)
process_frame(p, frame, timestamp) ==
    LET landmarks == extract_landmarks(frame)
    IN  IF landmarks = None
        THEN [pipeline |-> p, result |-> NoFaceResult(timestamp)]
        ELSE
        LET micro == MicroSignals(landmarks[1],
                         calculate_blink_rate(landmarks[1], p.blink_history))
        IN  [pipeline |-> [p EXCEPT
                 !.blink_history = BlinkHistoryAfter(landmarks[1], @),
                 !.history = DequeAppend(@, [timestamp |-> timestamp,
                                             signals |-> micro], HistoryWindow)],
             result |-> fuse_signals(detect_emotion(frame.fer), micro, timestamp)]

Logged(p, frame, timestamp, result) ==
    [p EXCEPT !.log = Append(@, [frame |-> frame, timestamp |-> timestamp,
                                 result |-> result])]

PipeInit ==
    /\ probe \in {NewPipeline(fps) : fps \in FpsChoices}
    /\ registry = EmptyMap
    /\ heap = EmptyMap
    /\ th = [t \in Threads |-> Idle]
    /\ nstarts = 0
    /\ nreq = 0

(* pipeline.process_frame(frame, timestamp) called by the owner *)
PipeProcessFrame ==
    /\ probe.loop = "idle"
    /\ Len(probe.log) < MaxFrames
    /\ \E frame \in PipeFrames :
           LET timestamp == RInt(Len(probe.log))
               call == process_frame(probe, frame, timestamp)
           IN  probe' = Logged(call.pipeline, frame, timestamp, call.result)
    /\ UNCHANGED <<registry, heap, th, nstarts, nreq>>

(* start_realtime_analysis, lines 554-563: running is set and the camera   *)
(* opened; the loop is about to test `while self.running`                  *)
PipeRealtimeStart ==
    /\ probe.loop = "idle"
    /\ Len(probe.log) < MaxFrames
    /\ probe' = [probe EXCEPT !.running = TRUE, !.loop = "test"]
    /\ UNCHANGED <<registry, heap, th, nstarts, nreq>>

(* line 566: `while self.running` found true, the loop waits in cap.read() *)
PipeRealtimeTest ==
    /\ probe.loop = "test"
    /\ probe.running
    /\ probe' = [probe EXCEPT !.loop = "read"]
    /\ UNCHANGED <<registry, heap, th, nstarts, nreq>>

(* the rest of an iteration, lines 569-587: cap.read() gives a frame, it   *)
(* is processed and, with a face, appended to session_data.  running is    *)
(* not read again before line 566, so a stop that arrived during the read  *)
(* does not keep the frame from being processed.                          *)
PipeRealtimeStep ==
    /\ probe.loop = "read"
    /\ Len(probe.log) < MaxFrames
    /\ \E frame \in PipeFrames :
           LET timestamp == RInt(Len(probe.log))
               call == process_frame(probe, frame, timestamp)
               kept == IF Get(call.result, "face_detected", FALSE)
                       THEN [call.pipeline EXCEPT
                                !.session_data = Append(@, call.result)]
                       ELSE call.pipeline
           IN  probe' = [Logged(kept, frame, timestamp, call.result)
                            EXCEPT !.loop = "test"]
    /\ UNCHANGED <<registry, heap, th, nstarts, nreq>>

(* stop_realtime_analysis, lines 593-595: running = False, whether or not  *)
(* a loop is running                                                       *)
PipeStopRealtime ==
    /\ probe.running
    /\ probe' = [probe EXCEPT !.running = FALSE]
    /\ UNCHANGED <<registry, heap, th, nstarts, nreq>>

(* the loop is left: running is false at line 566, or cap.read() fails     *)
(* (lines 569-571, running stays as it is); lines 589-591                  *)
PipeRealtimeExit ==
    /\ \/ probe.loop = "test" /\ ~probe.running
       \/ probe.loop = "read"
    /\ probe' = [probe EXCEPT !.loop = "idle"]
    /\ UNCHANGED <<registry, heap, th, nstarts, nreq>>

PipeNext ==
    \/ PipeProcessFrame
    \/ PipeRealtimeStart
    \/ PipeRealtimeTest
    \/ PipeRealtimeStep
    \/ PipeStopRealtime
    \/ PipeRealtimeExit

SpecPipeline == PipeInit /\ [][PipeNext]_vars

(***************************************************************************)
(* The same pipeline over a long stretch of frames, enough to fill both    *)
(* deques.  The frames come in runs of equal frames.                       *)
(***************************************************************************)
MaxWindowFrames == 32

MaxRuns == 2

(* the number of runs of equal frames in a log *)
Runs(log) ==
    IF log = <<>> THEN 0
    ELSE 1 + Cardinality({i \in 1..(Len(log) - 1) : log[i].frame # log[i + 1].frame})

WindowInit ==
    /\ probe = NewPipeline(RouteFps)
    /\ registry = EmptyMap
    /\ heap = EmptyMap
    /\ th = [t \in Threads |-> Idle]
    /\ nstarts = 0
    /\ nreq = 0

(* pipeline.process_frame(frame, timestamp), the timestamp the frame's     *)
(* position in the stream                                                  *)
WindowProcessFrame ==
    /\ Len(probe.log) < MaxWindowFrames
    /\ \E frame \in RouteFrames :
           LET timestamp == RInt(Len(probe.log))
               call == process_frame(probe, frame, timestamp)
           IN  /\ probe' = Logged(call.pipeline, frame, timestamp, call.result)
               /\ Runs(probe'.log) <= MaxRuns
    /\ UNCHANGED <<registry, heap, th, nstarts, nreq>>

SpecWindow == WindowInit /\ [][WindowProcessFrame]_vars

(***************************************************************************)
(* One fusion: a pipeline that has seen a few frames analyses one more,    *)
(* over the faces and the classifier outcomes that put the stress and      *)
(* anxiety scores on either side of the override thresholds.  The scores   *)
(* are exact rationals where the code adds and multiplies doubles, so a    *)
(* score that is exactly 0.3, 0.7 or 0.8 here can fall on either side of   *)
(* the threshold in the code (0.3 * ((0.65 - 0.3) / 0.15) is               *)
(* 0.7000000000000001 > 0.7).  The faces are chosen so that no composite   *)
(* score lies on a threshold it is compared with: every score is at least  *)
(* 1/60 away from it, far beyond the rounding of the doubles.              *)
(***************************************************************************)
FusionGeometries ==
    [faceH : {100}, brow : {0, 4, 20}, lipGap : {1, 2, 10}, mouthW : {50},
     lift : {1}, eyeV : {3, 6, 7}, eyeH : {20}, jawH : {45, 80}, jawHalf : {50}]

(* FER raises, finds no face, or scores one of its seven emotions highest *)
FerOutcomes ==
    {[raises |-> TRUE, faces |-> <<>>], [raises |-> FALSE, faces |-> <<>>]}
    \cup {[raises |-> FALSE, faces |-> <<ScoresFor(EMOTIONS[i])>>] : i \in DOMAIN EMOTIONS}

FusionFrames ==
    {[mesh |-> [raises |-> FALSE, faces |-> <<MakeFace(g)>>], fer |-> f] :
        g \in FusionGeometries, f \in FerOutcomes}

(* the pipeline after frames with a closed (TRUE) or open (FALSE) eye *)
RECURSIVE Fed(_)
Fed(flags) ==
    IF flags = <<>> THEN NewPipeline(RouteFps)
    ELSE LET before == Fed(SubSeq(flags, 1, Len(flags) - 1))
             frame == IF flags[Len(flags)] THEN FrameTense ELSE FrameRelaxed
         IN  process_frame(before, frame, RInt(Len(flags) - 1)).pipeline

(* the caller's timestamp for the frame: the session's first instant, or
   one after every frame fed before *)
FusionStamps == {RZero, RInt(MaxProbeHistory)}

FusionInit ==
    /\ probe \in [pipeline : {Fed(flags) : flags \in BoolSeqs(MaxProbeHistory)},
                  frame : FusionFrames, timestamp : FusionStamps, result : {None}]
    /\ registry = EmptyMap
    /\ heap = EmptyMap
    /\ th = [t \in Threads |-> Idle]
    /\ nstarts = 0
    /\ nreq = 0

(* pipeline.process_frame on the frame *)
FusionAnalyze ==
    /\ probe.result = None
    /\ LET call == process_frame(probe.pipeline, probe.frame, probe.timestamp)
       IN  probe' = [probe EXCEPT !.pipeline = call.pipeline,
                                  !.result = Some(call.result)]
    /\ UNCHANGED <<registry, heap, th, nstarts, nreq>>

SpecFusion == FusionInit /\ [][FusionAnalyze]_vars

(***************************************************************************)
(* Properties of the session registry (specification Spec)                 *)
(***************************************************************************)
Began(t, op) ==
    th[t].pc \in {"idle", "done"} /\ th'[t] # th[t] /\ th'[t].op = op

InProcessFrame(t) == th[t].pc \in {"a_blinksum", "a_blinklen", "a_history"}

Routed(t) ==
    th[t].pc \in {"a_landmarks", "a_blinksum", "a_blinklen", "a_history", "a_store",
                  "a_inc", "a_member", "a_create", "a_append", "a_trim", "a_pop"}

Answered(t, op) == th[t].pc = "done" /\ th[t].op = op

(* C1: after k >= 1 face-detected frames have been analysed for a tracked
   session, summarize is non-empty and counts k frames (k is the length of
   the recent-signal history, below its window) *)
C1_FramesAppended ==
    \A s \in DOMAIN registry :
        LET k == Len(heap[registry[s]].history)
            summary == generate_session_summary(heap[registry[s]].session_data)
        IN  (1 <= k /\ k < HistoryWindow) =>
                (summary # None /\ summary[1].total_frames_analyzed = k)

(* C2: a start always installs the state it created under its identifier,
   replacing any earlier one, and every frame is routed to the one state the
   registry holds for the identifier at that moment *)
C2_OneStatePerSession ==
    [][\A t \in Threads :
          /\ (th[t].pc = "s_publish" /\ th'[t].pc = "done") =>
                 /\ th[t].sid \in DOMAIN registry'
                 /\ registry'[th[t].sid] = th[t].pipe[1]
                 /\ heap'[th[t].pipe[1]].blink_history = <<>>
          /\ (th[t].pc = "a_fetch" /\ th'[t].pc = "a_body") =>
                 /\ th[t].sid \in DOMAIN registry
                 /\ th'[t].pipe = Some(registry[th[t].sid])
      ]_vars

(* a double start has been answered and a later frame is inside the state
   that start installed *)
C2_Witness ==
    \E t, u \in Threads :
        /\ Answered(t, "start") /\ th[t].sawTracking
        /\ Routed(u) /\ th[u].sid = th[t].sid
        /\ th[u].sid \in DOMAIN registry
        /\ th[u].pipe = Some(registry[th[u].sid])
        /\ nstarts = 2

(* C3: a completed stop leaves the identifier unregistered, and a frame for
   an identifier that is not registered is answered with an error and
   changes neither the registry nor any session state *)
C3_NotTrackingRejected ==
    [][\A t \in Threads :
          /\ (th[t].pc = "t_delete" /\ th'[t].pc = "done"
                  /\ th'[t].resp[1].code = 200) =>
                 th[t].sid \notin DOMAIN registry'
          /\ (Began(t, "analyze") /\ th'[t].sid \notin DOMAIN registry) =>
                 /\ th'[t].pc = "done"
                 /\ th'[t].resp[1] =
                        Resp(400, "Emotion tracking not started for this session", None)
                 /\ registry' = registry /\ heap' = heap
          /\ (th[t].pc = "a_fetch" /\ th'[t] # th[t]
                  /\ th[t].sid \notin DOMAIN registry) =>
                 /\ th'[t].pc = "done"
                 /\ th'[t].resp[1].code = 500
                 /\ registry' = registry /\ heap' = heap
      ]_vars

(* a frame was refused for an identifier that another request had stopped *)
C3_Witness ==
    \E t, u \in Threads :
        /\ Answered(t, "analyze")
        /\ th[t].resp[1].error = "Emotion tracking not started for this session"
        /\ Answered(u, "stop") /\ th[u].resp[1].code = 200
        /\ th[u].sid = th[t].sid
        /\ th[t].sid \notin DOMAIN registry

(* C4: a start for an identifier that is already tracked is answered with
   an error, not with the success of a first start *)
C4_DoubleStartRejected ==
    \A t \in Threads :
        (Answered(t, "start") /\ th[t].sawTracking) => th[t].resp[1].code # 200

StoppedBy(u, sid) ==
    Answered(u, "stop") /\ th[u].sid = sid /\ th[u].resp[1].code = 200

(* C5 as claimed: a summary requested after a completed stop of the
   identifier is not answered with the no-such-session error *)
C5_SummaryAfterStop ==
    [][\A t \in Threads :
          (/\ Began(t, "summary")
           /\ th'[t].sid \notin DOMAIN registry
           /\ \E u \in Threads : StoppedBy(u, th'[t].sid)) =>
              ~(th'[t].pc = "done" /\ th'[t].resp[1].code = 404)
      ]_vars

(* C5 amended: summarize is valid only while tracking; a summary request
   for an identifier that is not registered is answered 404 'No emotion data
   for this session' (500 when the entry vanishes after the membership test)
   and never with a summary *)
C5_SummaryOnlyWhileTracking ==
    [][\A t \in Threads :
          /\ (Began(t, "summary") /\ th'[t].sid \notin DOMAIN registry) =>
                 /\ th'[t].pc = "done"
                 /\ th'[t].resp[1] = Resp(404, "No emotion data for this session", None)
          /\ (th[t].pc = "g_run" /\ th'[t] # th[t]
                  /\ th[t].sid \notin DOMAIN registry) =>
                 th'[t].resp[1] = Resp(500, "KeyError", None)
      ]_vars

(* a summary request was answered 404 for an identifier that was stopped *)
C5_Witness ==
    \E t, u \in Threads :
        /\ Answered(t, "summary") /\ th[t].resp[1].code = 404
        /\ StoppedBy(u, th[t].sid)
        /\ th[t].sid \notin DOMAIN registry

OwnsEmpty(t) ==
    /\ th[t].sid \in DOMAIN registry
    /\ heap[registry[th[t].sid]].therapist_id = th[t].user
    /\ heap[registry[th[t].sid]].session_data = <<>>

(* C6 as claimed: summarize on an empty frame sequence gives an empty
   result and no error, in the pipeline and in the summary and stop
   endpoints *)
C6_EmptySummaryNoError ==
    [][\A t \in Threads :
          /\ generate_session_summary(<<>>) = None
          /\ (th[t].pc = "g_run" /\ th'[t] # th[t] /\ OwnsEmpty(t)) =>
                 th'[t].resp[1].code = 200
          /\ (th[t].pc = "t_delete" /\ th'[t] # th[t] /\ th[t].summary = None
                  /\ th[t].sid \in DOMAIN registry) =>
                 th'[t].resp[1].code = 200
      ]_vars

(* C6 amended: on an empty frame sequence the pipeline returns None and the
   stop endpoint answers 200 with a null summary and total_frames 0, but the
   summary endpoint answers 400 'No emotion data collected yet' *)
C6_EmptySummaryByEndpoint ==
    [][\A t \in Threads :
          /\ generate_session_summary(<<>>) = None
          /\ (th[t].pc = "g_run" /\ th'[t] # th[t] /\ OwnsEmpty(t)) =>
                 th'[t].resp[1] = Resp(400, "No emotion data collected yet", None)
          /\ (th[t].pc = "t_summary" /\ th'[t] # th[t] /\ OwnsEmpty(t)) =>
                 (th'[t].pc = "t_delete" /\ th'[t].summary = None)
          /\ (th[t].pc = "t_delete" /\ th'[t] # th[t] /\ th[t].summary = None
                  /\ th[t].sid \in DOMAIN registry) =>
                 th'[t].resp[1] =
                     Resp(200, "", Some([summary |-> None, total_frames |-> 0]))
      ]_vars

(* both endpoints have answered for a session without frames *)
C6_Witness ==
    \E t, u \in Threads :
        /\ Answered(t, "summary")
        /\ th[t].resp[1].error = "No emotion data collected yet"
        /\ Answered(u, "stop") /\ th[u].sid = th[t].sid
        /\ th[u].resp[1] = Resp(200, "", Some([summary |-> None, total_frames |-> 0]))

(* C7: at most one process_frame call is in flight per session identifier *)
C7_FramesSerialized ==
    \A s \in Sids :
        Cardinality({t \in Threads : InProcessFrame(t) /\ th[t].sid = s}) <= 1

(* C8: a step of a request on one identifier leaves every other
   identifier's registration and session state as they were *)
C8_SessionsIndependent ==
    [][\A t \in Threads :
          th'[t] # th[t] =>
              \A b \in Sids \ {th'[t].sid} :
                  /\ (b \in DOMAIN registry) = (b \in DOMAIN registry')
                  /\ b \in DOMAIN registry =>
                         /\ registry'[b] = registry[b]
                         /\ heap'[registry[b]] = heap[registry[b]]
                  /\ \A u \in Threads \ {t} :
                         (th[u].sid = b /\ th[u].pipe # None) =>
                             heap'[th[u].pipe[1]] = heap[th[u].pipe[1]]
      ]_vars

(* session S1 has analysed a face while S2 is tracked and untouched *)
C8_Witness ==
    /\ DOMAIN registry = {"S1", "S2"}
    /\ Len(heap[registry["S1"]].history) >= 1
    /\ heap[registry["S2"]] = NewEntry(heap[registry["S2"]].therapist_id)

(***************************************************************************)
(* Properties of the detectors (specification SpecMicro)                   *)
(***************************************************************************)
IntensitySignals == {"eyebrow_raise", "lip_press", "eye_widening", "jaw_tension",
                     "micro_smile"}

(* C9: every intensity and confidence of the five intensity signals is in [0,1] *)
C9_SignalsInUnit ==
    Analysed(probe) =>
        \A k \in IntensitySignals :
            /\ InUnit(probe.micro[1][k].intensity)
            /\ InUnit(probe.micro[1][k].confidence)

(* C10: stress, anxiety and engagement of an analysed face are in [0,1] *)
C10_ScoresInUnit ==
    Analysed(probe) =>
        /\ InUnit(probe.scores[1].stress_score)
        /\ InUnit(probe.scores[1].anxiety_score)
        /\ InUnit(probe.scores[1].engagement_score)

(* a face whose jaw intensity exceeds 1 and whose blink rate is 420 per
   minute has been scored, and its stress score is 1 *)
C10_Witness ==
    /\ Analysed(probe)
    /\ RLt(ROne, probe.micro[1].jaw_tension.intensity)
    /\ probe.micro[1].blink_rate.rate_per_min = RInt(420)
    /\ probe.scores[1].stress_score = ROne

(***************************************************************************)
(* Properties of a pipeline fed frame after frame (specification           *)
(* SpecPipeline)                                                           *)
(***************************************************************************)
NoFaceFound(frame) == frame.mesh.raises \/ frame.mesh.faces = <<>>

(* C11: the blink rate of the frame analysed last is the share of blink
   frames in the window times the pipeline's configured fps times 60 *)
C11_BlinkRateUsesFps ==
    (probe.history # <<>> /\ probe.blink_history # <<>>) =>
        LET b == CountTrue(probe.blink_history)
            n == Len(probe.blink_history)
        IN  probe.history[Len(probe.history)].signals.blink_rate.rate_per_min
                = RMul(Rat(b, n), RInt(probe.fps * 60))

(* C12: the record returned for a frame without a face has face_detected
   false and no composite_scores, emotion_analysis, micro_expressions or
   clinical_insights *)
C12_NoFaceNoScores ==
    \A i \in DOMAIN probe.log :
        NoFaceFound(probe.log[i].frame) =>
            /\ probe.log[i].result.face_detected = FALSE
            /\ (DOMAIN probe.log[i].result)
                   \cap {"composite_scores", "emotion_analysis", "micro_expressions",
                         "clinical_insights"} = {}

(* a frame without a face has been processed after a frame with one *)
C12_Witness ==
    \E i, j \in DOMAIN probe.log :
        /\ i < j
        /\ probe.log[i].result.face_detected
        /\ probe.log[j].frame = FrameNoFace
        /\ ~probe.log[j].result.face_detected

(* C13: a frame on which the landmark backend raises gets the no-face
   record, a frame on which the classifier raises gets the default
   classification (neutral before the override, no probabilities), and
   every frame fed, also after a failure, gets its record: face_detected
   tells whether the landmark backend found a face on it *)
C13_BackendFailureContained ==
    \A i \in DOMAIN probe.log :
        LET frame == probe.log[i].frame
            result == probe.log[i].result
        IN  /\ frame.mesh.raises => result = NoFaceResult(probe.log[i].timestamp)
            /\ result.face_detected = ~NoFaceFound(frame)
            /\ (frame.fer.raises /\ ~NoFaceFound(frame)) =>
                   /\ result.emotion_analysis.dominant_emotion
                          \in {"neutral", "stressed", "anxious"}
                   /\ result.emotion_analysis.emotion_probabilities = <<>>

(* both backends have failed on earlier frames and a later frame was
   analysed with its face and its classification *)
C13_Witness ==
    \E i, j, k \in DOMAIN probe.log :
        /\ i < k /\ j < k
        /\ probe.log[i].frame = FrameMeshRaises
        /\ probe.log[j].frame = FrameFerRaises
        /\ probe.log[k].frame = FrameTense
        /\ probe.log[k].result.face_detected
        /\ probe.log[k].result.emotion_analysis.emotion_probabilities
               = ScoresFor("sad")

RECURSIVE SumOver(_, _)
SumOver(f, S) ==
    IF S = {} THEN RZero
    ELSE LET k == CHOOSE x \in S : TRUE
         IN  RAdd(f[k], SumOver(f, S \ {k}))

(* C15: with at least one frame in session_data the fractions of
   emotion_distribution sum to 1 and the frames they stand for sum to
   total_frames_analyzed *)
C15_DistributionSumsToOne ==
    probe.session_data # <<>> =>
        LET summary == generate_session_summary(probe.session_data)[1]
            dist == summary.emotion_distribution
        IN  /\ SumOver(dist, DOMAIN dist) = ROne
            /\ RMul(SumOver(dist, DOMAIN dist), RInt(summary.total_frames_analyzed))
                   = RInt(Len(probe.session_data))
            /\ \A e \in DOMAIN dist : RLt(RZero, dist[e])

(* three frames were recorded, two of them under the same emotion *)
C15_Witness ==
    /\ Len(probe.session_data) = 3
    /\ Cardinality({EmotionOf(probe.session_data[i]) : i \in 1..3}) = 2

(***************************************************************************)
(* Properties of the pipeline over a long stretch of frames                *)
(* (specification SpecWindow)                                              *)
(***************************************************************************)
StressOf(entry) == entry.result.composite_scores.stress_score

(* the first ten frames are five relaxed faces and then five tense ones *)
TwoHalves ==
    /\ Len(probe.log) >= 10
    /\ \A i \in 1..5 : probe.log[i].frame = FrameRelaxed
    /\ \A i \in 6..10 : probe.log[i].frame = FrameTense

(* C14: after five relaxed frames and five frames with a clenched jaw and
   a closed eye, the stress scores of the second five sum to more than
   those of the first five, and each of the second five lists jaw_tension
   and blink_rate among its micro_expressions *)
C14_StressShiftsUp ==
    TwoHalves =>
        /\ RLt(RSum([i \in 1..5 |-> StressOf(probe.log[i])]),
               RSum([i \in 1..5 |-> StressOf(probe.log[i + 5])]))
        /\ \A i \in 6..10 :
               {"jaw_tension", "blink_rate"}
                   \subseteq DOMAIN probe.log[i].result.micro_expressions

(* the ten frames of the scenario have been processed; the first half
   scored no stress *)
C14_Witness ==
    /\ TwoHalves
    /\ Len(probe.log) = 10
    /\ StressOf(probe.log[5]) = RZero
    /\ StressOf(probe.log[10]) = ROne

(* the frames of the log on which a face was found, in arrival order *)
FaceFrames == SelectSeq(probe.log, LAMBDA e : ~NoFaceFound(e.frame))

LastOf(seq, n) ==
    IF Len(seq) <= n THEN seq ELSE SubSeq(seq, Len(seq) - n + 1, Len(seq))

(* C16: blink_history never holds more than 30 entries and history never
   more than 10, and they are the blink flags, resp. the timestamps, of the
   most recent 30, resp. 10, frames with a face, in arrival order *)
C16_HistoriesBounded ==
    /\ Len(probe.blink_history) <= 30
    /\ Len(probe.history) <= 10
    /\ probe.blink_history
           = LastOf([i \in DOMAIN FaceFrames |-> FaceFrames[i].frame = FrameTense], 30)
    /\ [i \in DOMAIN probe.history |-> probe.history[i].timestamp]
           = LastOf([i \in DOMAIN FaceFrames |-> FaceFrames[i].timestamp], 10)

(* 32 faces have been analysed: the first two left the full blink window,
   which runs from an open eye to a closed one *)
C16_Witness ==
    /\ Len(FaceFrames) = 32
    /\ Len(probe.blink_history) = 30
    /\ probe.blink_history[1] = FALSE
    /\ probe.blink_history[30] = TRUE
    /\ Len(probe.history) = 10
    /\ probe.history[1].timestamp = RInt(22)

(***************************************************************************)
(* Properties of the emotion override (specification SpecFusion)           *)
(***************************************************************************)
Fused == probe.result # None

(* the classifier's dominant emotion on the frame, 'neutral' standing in
   when the classifier failed or found no face *)
ClassifierSays ==
    IF probe.frame.fer.raises \/ probe.frame.fer.faces = <<>> THEN "neutral"
    ELSE CHOOSE e \in DOMAIN probe.frame.fer.faces[1] :
             probe.frame.fer.faces[1][e] = Rat(70, 100)

Reported == probe.result[1].emotion_analysis.dominant_emotion

HighStress == RLt(Rat(7, 10), probe.result[1].composite_scores.stress_score)

HighAnxiety == RLt(Rat(7, 10), probe.result[1].composite_scores.anxiety_score)

(* C17: the reported emotion is fixed by the classifier's emotion and the
   two scores, and the override applied to it again, with the same scores,
   leaves it as it is *)
C17_OverrideIdempotent ==
    Fused =>
        /\ Reported =
               (IF ClassifierSays = "neutral" /\ HighStress THEN "stressed"
                ELSE IF ClassifierSays \in {"sad", "neutral"} /\ HighAnxiety
                     THEN "anxious"
                ELSE ClassifierSays)
        /\ AdjustEmotion(Reported, probe.result[1].composite_scores.stress_score,
                         probe.result[1].composite_scores.anxiety_score) = Reported

(* a sad reading was overridden to anxious while the stress score is high
   too *)
C17_Witness ==
    /\ Fused
    /\ ClassifierSays = "sad"
    /\ HighStress /\ HighAnxiety
    /\ Reported = "anxious"

(* C18: with a stress score above 0.7 and a neutral classifier emotion the
   reported emotion is 'stressed', whatever the anxiety score *)
C18_NeutralStressIsStressed ==
    (Fused /\ HighStress /\ ClassifierSays = "neutral") => Reported = "stressed"

(* the classifier raised, both scores are high and 'stressed' is reported *)
C18_Witness ==
    /\ Fused
    /\ probe.frame.fer.raises
    /\ HighStress /\ HighAnxiety
    /\ Reported = "stressed"

(* C19 as claimed: with an anxiety score above 0.7 and a classifier emotion
   of 'sad' or 'neutral' the reported emotion is 'anxious' *)
C19_AnxietyIsAnxious ==
    (Fused /\ HighAnxiety /\ ClassifierSays \in {"sad", "neutral"}) =>
        Reported = "anxious"

(* C19 amended: with an anxiety score above 0.7 the reported emotion is
   'anxious' when the classifier's emotion is 'sad', or is 'neutral' with a
   stress score of at most 0.7; with 'neutral' and a stress score above 0.7
   it is 'stressed' *)
C19_AnxietyIsAnxiousUnlessStressed ==
    (Fused /\ HighAnxiety) =>
        /\ ClassifierSays = "sad" => Reported = "anxious"
        /\ (ClassifierSays = "neutral" /\ ~HighStress) => Reported = "anxious"
        /\ (ClassifierSays = "neutral" /\ HighStress) => Reported = "stressed"

(* a neutral reading with high anxiety and low stress was overridden to
   anxious *)
C19_Witness ==
    /\ Fused
    /\ ClassifierSays = "neutral"
    /\ HighAnxiety /\ ~HighStress
    /\ Reported = "anxious"

(* C20: a classifier emotion of angry, disgust, fear, happy or surprise is
   reported as it is for every stress and anxiety score, and 'sad' is
   reported as 'sad' or 'anxious' *)
C20_OnlyBlandEscalates ==
    Fused =>
        /\ ClassifierSays \in {"angry", "disgust", "fear", "happy", "surprise"} =>
               Reported = ClassifierSays
        /\ ClassifierSays = "sad" => Reported \in {"sad", "anxious"}

(* a happy reading was kept although both scores are high *)
C20_Witness ==
    /\ Fused
    /\ ClassifierSays = "happy"
    /\ HighStress /\ HighAnxiety
    /\ Reported = "happy"

(***************************************************************************)
(* Properties of the fused record (specification SpecFusion)               *)
(***************************************************************************)
ClassifierSilent == probe.frame.fer.raises \/ probe.frame.fer.faces = <<>>

(* the mean confidence of the signals listed in the record, 0.5 if none *)
ListedConfidence ==
    LET listed == probe.result[1].micro_expressions
    IN  IF DOMAIN listed = {} THEN Rat(5, 10)
        ELSE RDiv(SumOver([k \in DOMAIN listed |-> listed[k].confidence],
                          DOMAIN listed),
                  RInt(Cardinality(DOMAIN listed)))

(* C21: a frame with landmarks on which the classifier gives no result is
   no error: its record has face_detected true and is built from the base
   emotion 'neutral', the base confidence 0.5 and an empty probability map *)
C21_ClassifierDefault ==
    (Fused /\ ClassifierSilent) =>
        /\ probe.result[1].face_detected
        /\ "error" \notin DOMAIN probe.result[1]
        /\ probe.result[1].emotion_analysis.emotion_probabilities = <<>>
        /\ Reported = (IF HighStress THEN "stressed"
                       ELSE IF HighAnxiety THEN "anxious" ELSE "neutral")
        /\ probe.result[1].emotion_analysis.confidence
               = RAdd(RMul(Rat(6, 10), Rat(5, 10)),
                      RMul(Rat(4, 10), ListedConfidence))

(* the classifier found no face on a frame with landmarks and calm
   signals: the record reports neutral *)
C21_Witness ==
    /\ Fused
    /\ probe.frame.fer = [raises |-> FALSE, faces |-> <<>>]
    /\ probe.result[1].face_detected
    /\ Reported = "neutral"
    /\ DOMAIN probe.result[1].micro_expressions # {}

(***************************************************************************)
(* Properties of one analyze_micro_expressions call on partial landmarks   *)
(* (specification SpecMicro)                                               *)
(***************************************************************************)
(* the landmark indices each calculation reads *)
IndicesRead ==
    [eyebrow_raise |-> {70, 159, 300, 386, 10, 152},
     lip_press |-> {13, 14, 61, 291},
     blink_rate |-> {33, 160, 158, 133, 153, 144},
     eye_widening |-> {33, 160, 158, 133, 153, 144},
     jaw_tension |-> {172, 397, 152},
     micro_smile |-> {61, 291, 0, 33, 263}]

(* the record has exactly these fields *)
HasFields(signal, fields) == DOMAIN signal = fields

(* the failure record the claim describes: a detection flag that is false, *)
(* an intensity of 0 and a confidence of 0                                 *)
ZeroIntensityFailure(signal) ==
    /\ "detected" \in DOMAIN signal /\ signal.detected = FALSE
    /\ "intensity" \in DOMAIN signal /\ signal.intensity = RZero
    /\ "confidence" \in DOMAIN signal /\ signal.confidence = RZero

(* the failure record of the blink calculation: no intensity, a rate of 0 *)
ZeroRateFailure(signal) ==
    /\ HasFields(signal, {"detected", "rate_per_min", "confidence"})
    /\ signal.detected = FALSE
    /\ signal.rate_per_min = RZero
    /\ signal.confidence = RZero

(* the other parts of the claim: all six signals are in the result, a     *)
(* calculation whose landmarks are there is computed, and the blink        *)
(* history grows by one exactly when the blink calculation worked          *)
OthersComputed(before, after) ==
    LET present == DOMAIN before.landmarks
        micro == after.micro[1]
    IN  /\ DOMAIN micro = DOMAIN IndicesRead
        /\ \A k \in DOMAIN IndicesRead :
               IndicesRead[k] \subseteq present => RLt(RZero, micro[k].confidence)
        /\ after.blink_history =
               (IF IndicesRead.blink_rate \subseteq present
                THEN Append(before.blink_history,
                            after.blink_history[Len(after.blink_history)])
                ELSE before.blink_history)

(* C22 as stated: each of the six calculations whose landmarks are missing
   returns detected false, intensity 0 and confidence 0, the others are
   still computed, and a failed blink calculation appends nothing *)
C22_AllSixFailWithIntensity ==
    [][/\ OthersComputed(probe, probe')
       /\ \A k \in DOMAIN IndicesRead :
              ~(IndicesRead[k] \subseteq DOMAIN probe.landmarks) =>
                  ZeroIntensityFailure(probe'.micro[1][k])]_vars

(* C22: each of the five geometric calculations whose landmarks are
   missing returns detected false, intensity 0 and confidence 0; the blink
   calculation returns detected false, rate_per_min 0 and confidence 0 in a
   record without an intensity; the others are still computed, and a
   failed blink calculation appends nothing to the blink history *)
C22_SignalsFailSoft ==
    [][/\ OthersComputed(probe, probe')
       /\ \A k \in DOMAIN IndicesRead :
              ~(IndicesRead[k] \subseteq DOMAIN probe.landmarks) =>
                  IF k = "blink_rate"
                  THEN ZeroRateFailure(probe'.micro[1][k])
                  ELSE ZeroIntensityFailure(probe'.micro[1][k])]_vars

(* the eye landmarks were missing on a frame analysed with two flags in
   the blink history: blink rate (a record without intensity) and eye
   widening failed, the eyebrow, lip,
   jaw and smile signals were computed, the history still has two flags *)
C22_Witness ==
    /\ Analysed(probe)
    /\ 160 \notin DOMAIN probe.landmarks
    /\ Len(probe.blink_history) = 2
    /\ probe.micro[1].blink_rate = FailedBlink
    /\ "intensity" \notin DOMAIN probe.micro[1].blink_rate
    /\ probe.micro[1].eye_widening = FailedSignal
    /\ \A k \in {"eyebrow_raise", "lip_press", "jaw_tension", "micro_smile"} :
           RLt(RZero, probe.micro[1][k].confidence)

(* the six signals computed on the frame, as analyze_micro_expressions
   stored them in the history *)
SignalsOfFrame ==
    probe.pipeline.history[Len(probe.pipeline.history)].signals

(* C23: micro_expressions of a face-detected record lists exactly the
   signals of the frame whose detected flag is true, each as computed *)
C23_OnlyDetectedListed ==
    Fused =>
        LET listed == probe.result[1].micro_expressions
        IN  /\ DOMAIN listed
                  = {k \in DOMAIN SignalsOfFrame : SignalsOfFrame[k].detected}
            /\ \A k \in DOMAIN listed : listed[k] = SignalsOfFrame[k]

(* a record that lists the lip press and the blink rate and leaves out
   the eyebrow raise and the jaw tension, which did not fire *)
C23_Witness ==
    /\ Fused
    /\ {"lip_press", "blink_rate"} \subseteq DOMAIN probe.result[1].micro_expressions
    /\ DOMAIN probe.result[1].micro_expressions
           \cap {"eyebrow_raise", "jaw_tension"} = {}
    /\ ~SignalsOfFrame.eyebrow_raise.detected
    /\ RLt(RZero, SignalsOfFrame.eyebrow_raise.intensity)

(***************************************************************************)
(* Properties of the session registry under requests (specification Spec) *)
(***************************************************************************)
Fresh(entry) ==
    /\ entry.session_data = <<>>
    /\ entry.frame_count = 0
    /\ entry.blink_history = <<>>
    /\ entry.history = <<>>
    /\ ~entry.has_recent /\ entry.recent_emotions = <<>>

(* C24: the state a start installs under its identifier is fresh (no
   frames, frame counter 0, empty blink and recent-signal histories) and
   owned by the caller, whatever was processed under the identifier before *)
C24_StartInstallsFreshState ==
    [][\A t \in Threads :
          (th[t].pc = "s_publish" /\ th'[t].pc = "done") =>
              /\ th'[t].resp[1].code = 200
              /\ Fresh(heap'[registry'[th[t].sid]])
              /\ heap'[registry'[th[t].sid]].therapist_id = th[t].user
      ]_vars

(* a face-detected frame was analysed under an identifier and a later
   start for the same identifier has left a fresh state there *)
C24_Witness ==
    \E t, u \in Threads :
        /\ Answered(t, "start") /\ th[t].sawTracking
        /\ Answered(u, "analyze") /\ th[u].sid = th[t].sid
        /\ th[u].resp[1].code = 200
        /\ th[u].resp[1].payload[1].face_detected
        /\ th[t].sid \in DOMAIN registry
        /\ Fresh(heap[registry[th[t].sid]])

(***************************************************************************)
(* Timestamps of the frames of one pipeline (specification SpecFusion)     *)
(***************************************************************************)
(* C25: a frame is analysed whatever its timestamp, also one below the
   timestamps of the frames before it; its record and its history entry
   carry the timestamp as supplied and the earlier entries stay in place *)
C25_TimestampAsSupplied ==
    Fused =>
        LET history == probe.pipeline.history
        IN  /\ probe.result[1].face_detected
            /\ probe.result[1].timestamp = probe.timestamp
            /\ history[Len(history)].timestamp = probe.timestamp
            /\ \A i \in 1..(Len(history) - 1) : history[i].timestamp = RInt(i - 1)

(* a frame stamped 0 was analysed after a frame stamped 1 *)
C25_Witness ==
    /\ Fused
    /\ Len(probe.pipeline.history) = 3
    /\ probe.pipeline.history[2].timestamp = ROne
    /\ probe.timestamp = RZero
    /\ probe.result[1].timestamp = RZero

(* no analyze_frame call is inside the state pid *)
Quiet(pid) == \A t \in Threads : ~(Routed(t) /\ th[t].pipe = Some(pid))

(* C26: once the analyze_frame calls on a session state have returned,
   its frame_count is the number of face-detected frames processed on it
   (the length of its recent-signal history, below the window) and
   recent_emotions holds those frames' records, at most 10 *)
C26_NoLostIncrement ==
    \A pid \in DOMAIN heap :
        (Quiet(pid) /\ Len(heap[pid].history) < HistoryWindow) =>
            /\ heap[pid].frame_count = Len(heap[pid].history)
            /\ Len(heap[pid].recent_emotions) = Len(heap[pid].history)

(* C27: no stop is answered with an internal error (500), and of two
   stops answered for a session that was started once at most one removed
   it and was answered 'stopped' (200) *)
C27_ConcurrentStopsClean ==
    /\ \A t \in Threads :
           Answered(t, "stop") => th[t].resp[1].code \in {200, 403, 404}
    /\ \A t, u \in Threads :
           (/\ t # u
            /\ Answered(t, "stop") /\ Answered(u, "stop")
            /\ th[t].sid = th[u].sid
            /\ nstarts = 1)
               => ~(th[t].resp[1].code = 200 /\ th[u].resp[1].code = 200)

(* C28: a step of a request made by a user other than the owner of a
   tracked session leaves the session's registry entry and state as they
   were, and an analyze, summary or stop request answered in such a step is
   answered 403 *)
C28_NonOwnerChangesNothing ==
    [][\A t \in Threads : \A sid \in DOMAIN registry :
          (/\ th'[t] # th[t]
           /\ th'[t].sid = sid
           /\ th'[t].user # heap[registry[sid]].therapist_id)
              => /\ sid \in DOMAIN registry'
                 /\ registry'[sid] = registry[sid]
                 /\ heap'[registry[sid]] = heap[registry[sid]]
                 /\ (th'[t].pc = "done" /\ th'[t].op # "start")
                        => th'[t].resp[1].code = 403
      ]_vars

(* C29: a stop that found its session tracked (line 184) and is not
   refused for ownership (403) removes the session and is answered
   'stopped' (200), whatever the summary and the database save gave *)
C29_OwnerStopAlwaysStops ==
    [][\A t \in Threads :
          (th[t].pc \in {"t_summary", "t_delete"} /\ th'[t].pc = "done") =>
              \/ th'[t].resp[1].code = 403
              \/ /\ th'[t].resp[1].code = 200
                 /\ th[t].sid \notin DOMAIN registry'
      ]_vars

(* C30: no step of an analyze_frame call on a frame without a face changes
   the session state (frame sequence, frame counter, blink history,
   recent-signal history, recent_emotions) or the registry, and the call
   is answered with the no-face record *)
C30_NoFaceLeavesState ==
    [][\A t \in Threads :
          (Routed(t) /\ th'[t] # th[t] /\ NoFaceFound(th[t].data.frame)) =>
              LET pid == th[t].pipe[1]
              IN  /\ registry' = registry
                  /\ pid \in DOMAIN heap' => heap'[pid] = heap[pid]
                  /\ th'[t].pc = "done" =>
                         /\ th'[t].resp[1].code = 200
                         /\ th'[t].resp[1].payload[1].face_detected = FALSE
                         /\ th'[t].resp[1].payload[1].timestamp = th[t].ts[1]
      ]_vars

(* a frame without a face was answered for a session whose state holds
   one analysed face frame *)
C30_Witness ==
    \E t \in Threads :
        /\ Answered(t, "analyze")
        /\ th[t].resp[1].code = 200
        /\ th[t].resp[1].payload # None
        /\ ~th[t].resp[1].payload[1].face_detected
        /\ th[t].sid \in DOMAIN registry
        /\ heap[registry[th[t].sid]].frame_count = 1
        /\ Len(heap[registry[th[t].sid]].blink_history) = 1
        /\ Len(heap[registry[th[t].sid]].history) = 1
        /\ Len(heap[registry[th[t].sid]].recent_emotions) = 1
====
